---------------------------- MODULE Spec2Model ----------------------------
(***************************************************************************)
(* Inhaler data logger: the serial acquisition pipeline of main.py         *)
(* (InhalerLogger + InhalerUI.update_plot), and the second pipeline of     *)
(* logic.py and guis.py (Logic + Guis.start_gui).                          *)
(*                                                                         *)
(* Units.  Python floats are modelled by exact integers:                   *)
(*   - field values parsed by float() are kept in thousandths,             *)
(*     so a pressure drop in kPa is held in Pa (pressure_drop_kpa * 1000); *)
(*   - a resistance is kept in tenths (66.8 -> 668);                       *)
(*   - a flow rate (rounded to 2 decimals by the code) is kept in          *)
(*     hundredths (40.17 -> 4017);                                         *)
(*   - Logic.measurement_time is kept in ten-thousandths (0.14 -> 1400),   *)
(*     a value rounded to 1 decimal in tenths (22.5 -> 225).               *)
(* A line of text is kept as its sequence of maximal runs: runs of         *)
(* whitespace (" ", "\n") alternating with runs of other characters.       *)
(***************************************************************************)
EXTENDS Integers, Sequences, FiniteSets, TLC

VARIABLES
    pc,                 \* "connecting" (inside InhalerLogger.__init__) | "mainloop"
                        \* | "crashed" (an exception left a tick) | "off"
    attempts,           \* passes of the retry loop made so far (a local of __init__)
    open_failed,        \* __init__ ended without a connection (main.py 49-50)
    serial_connection,  \* logger.serial_connection: Absent | "open" | "closed"
    data,               \* logger.data
    first_measurement,  \* logger.first_measurement
    inhaler_resistance, \* logger.inhaler_resistance
    inhaler_var,        \* ui.inhaler_var (text of the editable combobox)
    running,            \* ui.running
    times,              \* x data handed to line.set_data
    flow_rates,         \* y data handed to line.set_data
    rx,                 \* the port's input buffer: lines waiting to be read
    lastTick,           \* the path the last update_plot call took
    faulted,            \* a SerialException has been caught by update_plot
    conv,               \* calculate_flow_rate applied to free inputs (SpecConv)
    gpc,                \* Guis.start_gui: "off" | "start" | "mainloop" | "returned"
    ser,                \* input buffer of the port opened by start_gui
    flow_rate_data,     \* logic.flow_rate_data
    measurement_time,   \* logic.measurement_time
    logic_first,        \* logic.first_measurement
    scheduled,          \* calls of update pending in root.after
    plotted,            \* what Guis.update_plot last drew
    shown,              \* the reading whose constants update_constants set
    lastUpdate          \* the path the last call of update took

vars == <<pc, attempts, open_failed, serial_connection, data, first_measurement,
          inhaler_resistance, inhaler_var, running, times, flow_rates,
          rx, lastTick, faulted, conv,
          gpc, ser, flow_rate_data, measurement_time, logic_first, scheduled,
          plotted, shown, lastUpdate>>

\* the state of the Logic/Guis program
guisVars == <<gpc, ser, flow_rate_data, measurement_time, logic_first,
              scheduled, plotted, shown, lastUpdate>>

\* the state of the main.py program
mainVars == <<pc, attempts, open_failed, serial_connection, data,
              first_measurement, inhaler_resistance, inhaler_var, running,
              times, flow_rates, rx, lastTick, faulted>>

\* Python's None where a value may be held instead: None, or Some(v)
None == {}
Some(v) == {v}
Value(opt) == CHOOSE v \in opt : TRUE

\* logger.serial_connection is None
Absent == "None"

----------------------------------------------------------------------------
(* Bounds of the model *)

MaxStore == 2          \* readings that may reach the store
MaxPending == 1        \* lines buffered in the port at once
FlowSearchMax == 20000 \* flow rates are searched in 0 .. 200.00 L/min

----------------------------------------------------------------------------
(* Device catalog, main.py 11-28: name -> resistance, in tenths *)

INHALER_RESISTANCES == [NEXThaler |-> 668, Turbuhaler |-> 628]

\* What the editable combobox can hold: a catalog name, or any other text.
Selections == DOMAIN INHALER_RESISTANCES \cup {""}

\* a bug to catch: one pass too many
OneMorePass == 5 + 1

\* range(5) of the connection loop, main.py 40
MaxRetries == 5

----------------------------------------------------------------------------
(* Exact arithmetic below 2^31 *)

\* a*a <= m * 10^6, for 0 <= a < 46340000, without forming a*a
SqLeqMillion(a, m) ==
    LET ah == a \div 1000
        al == a % 1000
        t  == 2 * ah * al
        lo == (t % 1000) * 1000 + al * al
        q  == ah * ah + t \div 1000 + lo \div 1000000
        r  == lo % 1000000
    IN  q < m \/ (q = m /\ r = 0)

\* a bug to catch: the flow rate is cut to 2 decimals instead of rounded
Truncating(k, pa, r10) ==
    k <= 0 \/ SqLeqMillion(2 * k * r10, 14400 * pa)

\* round(flow_rate, 2) (main.py 59) yields k hundredths or more:
\* k - 1/2 <= 100 * (sqrt(pa) / (r10/10)) * 60, i.e.
\* ((2k-1) * r10)^2 <= 120000^2 * pa, for pa >= 0 and r10 > 0
\* (A tie, 120000 * sqrt(pa) = (2k-1) * r10, needs sqrt(pa) an integer s and
\* 30000 * s = (2k-1) * 167 or (2k-1) * 157 for the catalog: even = odd.  So
\* round's half-to-even rule never decides, nor does it for 91.0.)
AtLeastHalfBelow(k, pa, r10) ==
    k <= 0 \/ SqLeqMillion((2 * k - 1) * r10, 14400 * pa)

RECURSIVE RoundSearch(_, _, _, _)
RoundSearch(lo, hi, pa, r10) ==
    IF hi - lo <= 1 THEN lo
    ELSE LET mid == (lo + hi) \div 2
         IN  IF AtLeastHalfBelow(mid, pa, r10)
             THEN RoundSearch(mid, hi, pa, r10)
             ELSE RoundSearch(lo, mid, pa, r10)

----------------------------------------------------------------------------
(* InhalerLogger.calculate_flow_rate, main.py 52-59 *)

Raise(e) == [ok |-> FALSE, err |-> e]
Return(v) == [ok |-> TRUE, val |-> v]

\* pressure_drop_pa: pressure_drop_kpa * 1000 (line 56), an integer here.
\* resistance: self.inhaler_resistance, None or Some(number in tenths).
\* The result is round(flow_rate, 2) in hundredths.
calculate_flow_rate(pressure_drop_pa, resistance) ==
    IF pressure_drop_pa < 0 THEN Raise("ValueError")            \* math.sqrt
    ELSE IF resistance = None THEN Raise("TypeError")           \* float / None
    ELSE IF Value(resistance) = 0 THEN Raise("ZeroDivisionError")
    ELSE IF Value(resistance) > 0
         THEN Return(RoundSearch(0, FlowSearchMax + 1, pressure_drop_pa, Value(resistance)))
         ELSE Return(0 - RoundSearch(0, FlowSearchMax + 1, pressure_drop_pa, 0 - Value(resistance)))

----------------------------------------------------------------------------
(* Text: str.strip, str.split, int, float, bytes.decode *)

Whitespace == {" ", "\n"}

\* str.strip(): leading and trailing whitespace runs removed
RECURSIVE LStrip(_)
LStrip(line) ==
    IF line # <<>> /\ Head(line) \in Whitespace THEN LStrip(Tail(line)) ELSE line

RECURSIVE RStrip(_)
RStrip(line) ==
    IF line # <<>> /\ line[Len(line)] \in Whitespace
    THEN RStrip(SubSeq(line, 1, Len(line) - 1)) ELSE line

Strip(line) == RStrip(LStrip(line))

\* str.split(): the runs between whitespace, in order
IsToken(run) == run \notin Whitespace
Split(line) == SelectSeq(line, IsToken)

\* int(): the decimal integer literals of the vocabulary
IntLiteral ==
    ("2024" :> 2024) @@ ("12" :> 12) @@ ("02" :> 2) @@ ("14" :> 14) @@
    ("30" :> 30) @@ ("15" :> 15) @@ ("2" :> 2)

\* float(): the literals with a decimal point, in thousandths
DecimalLiteral ==
    ("22.5" :> 22500) @@ ("45.0" :> 45000) @@ ("1013.0" :> 1013000) @@
    ("3.5" :> 3500) @@ ("3.64" :> 3640) @@ ("2.0" :> 2000) @@
    ("0.5" :> 500) @@ ("0.0" :> 0) @@ ("-1.0" :> -1000)

int(tok) ==
    IF tok \in DOMAIN IntLiteral THEN Return(IntLiteral[tok]) ELSE Raise("ValueError")

float(tok) ==
    IF tok \in DOMAIN DecimalLiteral THEN Return(DecimalLiteral[tok])
    ELSE IF tok \in DOMAIN IntLiteral THEN Return(1000 * IntLiteral[tok])
    ELSE Raise("ValueError")

\* What readline() hands back: bytes that are the UTF-8 encoding of a text,
\* or bytes that are not valid UTF-8.
InvalidBytes == [utf8 |-> FALSE]
Encoded(line) == [utf8 |-> TRUE, text |-> line]

decode(bytes) ==
    IF bytes.utf8 THEN Return(bytes.text) ELSE Raise("UnicodeDecodeError")

----------------------------------------------------------------------------
(* InhalerLogger.parse_data, main.py 61-100 *)

\* The result of a call: the value returned, self.first_measurement after it,
\* and what it printed ("Invalid data format", line 68; "Error parsing data",
\* line 99; or nothing).
ParseResult(value, first, printed) ==
    [value |-> value, first_measurement |-> first, printed |-> printed]

\* a bug to catch: only lines that are too short are rejected
TooFewParts(parts) == Len(parts) < 11

\* main.py 67: if len(parts) != 11
InvalidFormat(parts) == Len(parts) # 11

\* a bug to catch: every parsed reading overwrites the first measurement
OverwriteFirst(first, parsed_data) == Some(parsed_data)

\* main.py 94-95: if not self.first_measurement: self.first_measurement = parsed_data
CaptureFirst(first, parsed_data) ==
    IF first = None THEN Some(parsed_data) ELSE first

parse_data(line, resistance, first) ==
    LET parts == Split(Strip(line))
    IN  IF InvalidFormat(parts) THEN ParseResult(None, first, "invalid_format")
        ELSE
        LET ints   == [i \in 1..6 |-> int(parts[i])]
            floats == [i \in 1..5 |-> float(parts[6 + i])]
        IN  IF \E i \in 1..6 : ~ints[i].ok
            THEN ParseResult(None, first, "parse_error")
            ELSE IF \E i \in 1..5 : ~floats[i].ok
            THEN ParseResult(None, first, "parse_error")
            ELSE
            LET pressure_drop == floats[5].val
                flow_rate == calculate_flow_rate(pressure_drop, resistance)
            IN  IF ~flow_rate.ok THEN ParseResult(None, first, "parse_error")
                ELSE
                LET parsed_data ==
                        [Year |-> ints[1].val, Month |-> ints[2].val,
                         Day |-> ints[3].val, Hour |-> ints[4].val,
                         Minute |-> ints[5].val, Second |-> ints[6].val,
                         Temperature |-> floats[1].val,
                         Humidity |-> floats[2].val,
                         AtmosphericPressure |-> floats[3].val,
                         MeasurementTime |-> floats[4].val,
                         PressureDrop |-> pressure_drop,
                         FlowRate |-> flow_rate.val]
                IN  ParseResult(Some(parsed_data),
                                CaptureFirst(first, parsed_data), "")

----------------------------------------------------------------------------
(* The lines the device may send *)

RECURSIVE Join(_)
Join(tokens) ==
    IF tokens = <<>> THEN <<"\n">>
    ELSE IF Len(tokens) = 1 THEN <<Head(tokens), "\n">>
    ELSE <<Head(tokens), " ">> \o Join(Tail(tokens))

Stamp == <<"2024", "12", "02", "14", "30", "15">>
Ambient == <<"22.5", "45.0", "1013.0">>

\* a telemetry line with measurement time mt and pressure drop pd
Telemetry(mt, pd) == Join(Stamp \o Ambient \o <<mt, pd>>)

Replace(tokens, i, tok) == [tokens EXCEPT ![i] = tok]

GoodLines ==
    {Telemetry("3.5", "2.0"), <<" ">> \o Telemetry("3.64", "2")}

NegativeLines == {Telemetry("3.5", "-1.0")}

WrongCountLines ==
    {Join(SubSeq(Stamp \o Ambient \o <<"3.5", "2.0">>, 1, n)) : n \in {0, 9}}
    \cup {Join(Stamp \o Ambient \o <<"3.5", "2.0", "2.0">>)}

NonNumericLines ==
    {Join(Replace(Stamp \o Ambient \o <<"3.5", "2.0">>, i, "abc")) : i \in {11}}
    \cup {Join(Replace(Stamp \o Ambient \o <<"3.5", "2.0">>, 3, "22.5"))}

Lines == GoodLines \cup NegativeLines \cup WrongCountLines \cup NonNumericLines

WireItems == {Encoded(l) : l \in Lines} \cup {InvalidBytes}

----------------------------------------------------------------------------
(* State after the fields of InhalerLogger.__init__ (main.py 32-37) and of
   InhalerUI.__init__ (main.py 109, 120, 136) are set *)

\* main.py does not import logic.py or guis.py: while it runs, no Logic or
\* Guis object exists.
GuisOff ==
    /\ gpc = "off"
    /\ ser = <<>>
    /\ flow_rate_data = <<>>
    /\ measurement_time = 0
    /\ logic_first = None
    /\ scheduled = 0
    /\ plotted = [times |-> <<>>, flow_rates |-> <<>>]
    /\ shown = None
    /\ lastUpdate = "none"

Init ==
    /\ pc = "connecting"
    /\ attempts = 0
    /\ open_failed = FALSE
    /\ serial_connection = Absent
    /\ data = <<>>
    /\ first_measurement = None
    /\ inhaler_resistance = None
    /\ inhaler_var = "NEXThaler"
    /\ running = TRUE
    /\ times = <<>>
    /\ flow_rates = <<>>
    /\ rx = <<>>
    /\ lastTick = "none"
    /\ faulted = FALSE
    /\ conv = [pa |-> 0, r |-> None, result |-> None]
    /\ GuisOff

----------------------------------------------------------------------------
(* InhalerLogger.__init__, main.py 39-50: one pass of the retry loop *)

\* the loop goes on while passes remain and no pass has succeeded
LoopContinues(made, connected) == ~connected /\ made < MaxRetries

\* The loop counter dies with __init__: it is kept only while connecting.
Attempt(succeeds) ==
    /\ pc = "connecting"
    /\ serial_connection' = IF succeeds THEN "open" ELSE serial_connection
    /\ IF LoopContinues(attempts + 1, succeeds)
       THEN /\ pc' = "connecting"
            /\ attempts' = attempts + 1
            /\ open_failed' = open_failed
       ELSE /\ pc' = "mainloop"
            /\ attempts' = 0
            /\ open_failed' = (serial_connection' = Absent)
    /\ UNCHANGED <<data, first_measurement, inhaler_resistance, inhaler_var,
                   running, times, flow_rates, rx, lastTick, faulted, conv, guisVars>>

ConnectSucceeds == Attempt(TRUE)
ConnectFails == Attempt(FALSE)

----------------------------------------------------------------------------
(* The environment: the device writes a line, the user edits the combobox *)

Arrive ==
    /\ pc = "mainloop"
    /\ Len(rx) < MaxPending
    /\ \E item \in WireItems : rx' = Append(rx, item)
    /\ UNCHANGED <<pc, attempts, open_failed, serial_connection, data,
                   first_measurement, inhaler_resistance, inhaler_var, running,
                   times, flow_rates, lastTick, faulted, conv, guisVars>>

SelectInhaler ==
    /\ pc = "mainloop"
    /\ \E s \in Selections \ {inhaler_var} : inhaler_var' = s
    /\ UNCHANGED <<pc, attempts, open_failed, serial_connection, data,
                   first_measurement, inhaler_resistance, running, times,
                   flow_rates, rx, lastTick, faulted, conv, guisVars>>

----------------------------------------------------------------------------
(* InhalerUI.update_plot, main.py 174-198 *)

\* a bug to catch: the y values are taken from the wrong column
ProjectPressureDrop(store) ==
    [times      |-> [i \in 1..Len(store) |-> store[i].MeasurementTime],
     flow_rates |-> [i \in 1..Len(store) |-> store[i].PressureDrop]]

\* main.py 193-194: the two list comprehensions over logger.data
Projection(store) ==
    [times      |-> [i \in 1..Len(store) |-> store[i].MeasurementTime],
     flow_rates |-> [i \in 1..Len(store) |-> store[i].FlowRate]]

\* What lines 178-190 leave behind, with the path taken through them.
Effect(outcome, conn, buf, res, store, first) ==
    [outcome |-> outcome, serial_connection |-> conn, rx |-> buf,
     inhaler_resistance |-> res, data |-> store, first_measurement |-> first]

Same(outcome) ==
    Effect(outcome, serial_connection, rx, inhaler_resistance, data, first_measurement)

\* a bug to catch: the handler forgets to mark the connection invalid
FaultIgnored(outcome) == Same(outcome)

\* SerialException caught at lines 186-188: the connection is marked invalid
Fault(outcome) ==
    Effect(outcome, Absent, rx, inhaler_resistance, data, first_measurement)

\* a bug to catch: an empty buffer is taken for a lost connection
EmptyIsFault == Fault("unreadable")

\* line 180 finds in_waiting = 0: nothing else runs
Unreadable == Same("unreadable")

\* a bug to catch: any exception drops the connection
DropOnError(outcome, rest, res) ==
    Effect(outcome, Absent, rest, res, data, first_measurement)

\* The line was read, and then an exception other than SerialException was
\* caught (lines 189-190) or parse_data returned None (line 184).
Discard(outcome, rest, res) ==
    Effect(outcome, serial_connection, rest, res, data, first_measurement)

\* a bug to catch: an append re-derives the flow rate of every stored reading
\* from the resistance of the current tick
Recalculate(store, parsed_data, resistance) ==
    Append([i \in 1..Len(store) |->
               [store[i] EXCEPT !.FlowRate =
                   calculate_flow_rate(store[i].PressureDrop, resistance).val]],
           parsed_data)

\* main.py 185: self.logger.data.append(parsed_data).  The readings already in
\* the list are not touched, whatever the resistance of this tick is.
data_append(store, parsed_data, resistance) == Append(store, parsed_data)

\* a bug to catch: the tick does not look at self.running
PollsWhenStopped(run, conn) == conn # Absent

\* main.py 178: if self.running and self.logger.serial_connection
Polls(run, conn) == run /\ conn # Absent

\* fault: where the port raises SerialException during this call, if anywhere
Acquire(fault) ==
    IF ~Polls(running, serial_connection) THEN Same("idle")
    ELSE IF fault = "in_waiting" \/ serial_connection = "closed"
    THEN Fault("fault_in_waiting")
    ELSE IF Len(rx) = 0 THEN Unreadable
    ELSE IF fault = "readline" THEN Fault("fault_readline")
    ELSE
    LET bytes == Head(rx)
        rest  == Tail(rx)
        text  == decode(bytes)
    IN  IF ~text.ok
        THEN Discard("decode_error", rest, inhaler_resistance)
        ELSE IF inhaler_var \notin DOMAIN INHALER_RESISTANCES          \* KeyError
        THEN Discard("no_selection", rest, inhaler_resistance)
        ELSE
        LET line == Strip(text.val)
            resistance == Some(INHALER_RESISTANCES[inhaler_var])
            parsed == parse_data(line, resistance, first_measurement)
        IN  IF parsed.value = None
            THEN [Discard(parsed.printed, rest, resistance)
                    EXCEPT !.first_measurement = parsed.first_measurement]
            ELSE Effect("appended", serial_connection, rest, resistance,
                        data_append(data, Value(parsed.value), resistance),
                        parsed.first_measurement)

Faults == {"fault_in_waiting", "fault_readline"}

\* The exception that leaves the try body of lines 179-185 on each path.
\* parse_data catches its own (main.py 98-100) and returns None.
Raised(outcome) ==
    IF outcome \in Faults THEN "SerialException"
    ELSE IF outcome = "decode_error" THEN "UnicodeDecodeError"
    ELSE IF outcome = "no_selection" THEN "KeyError"
    ELSE "none"

\* the classes above that derive from Exception: all of them
Exceptions == {"SerialException", "UnicodeDecodeError", "KeyError"}

\* a bug to catch: update_plot without its second except clause
OnlySerialCaught(exc) == exc = "SerialException"

\* main.py 186 (except serial.SerialException) and 189 (except Exception)
Caught(exc) == exc = "SerialException" \/ exc \in Exceptions

\* An exception that no clause catches leaves update_plot: the animation's
\* timer callback ends before it is re-armed, and no further tick runs.
Escapes(outcome) == Raised(outcome) # "none" /\ ~Caught(Raised(outcome))

update_plot ==
    /\ pc = "mainloop"
    /\ \E fault \in {"none", "in_waiting", "readline"} :
         LET e == Acquire(fault)
             p == Projection(e.data)
         IN  /\ Len(e.data) <= MaxStore
             /\ serial_connection' = e.serial_connection
             /\ rx' = e.rx
             /\ inhaler_resistance' = e.inhaler_resistance
             /\ data' = e.data
             /\ first_measurement' = e.first_measurement
             /\ times' = p.times
             /\ flow_rates' = p.flow_rates
             /\ lastTick' = e.outcome
             /\ faulted' = (faulted \/ e.outcome \in Faults)
             /\ pc' = IF Escapes(e.outcome) THEN "crashed" ELSE pc
    /\ UNCHANGED <<attempts, open_failed, inhaler_var, running, conv, guisVars>>

----------------------------------------------------------------------------
(* InhalerUI.quit_program, main.py 218-234 *)

quit_program ==
    /\ pc = "mainloop"
    /\ running
    /\ running' = FALSE
    /\ serial_connection' = IF serial_connection # Absent THEN "closed" ELSE Absent
    /\ UNCHANGED <<pc, attempts, open_failed, data, first_measurement,
                   inhaler_resistance, inhaler_var, times, flow_rates, rx,
                   lastTick, faulted, conv, guisVars>>

----------------------------------------------------------------------------

Next ==
    \/ ConnectSucceeds
    \/ ConnectFails
    \/ Arrive
    \/ SelectInhaler
    \/ update_plot
    \/ quit_program

Spec == Init /\ [][Next]_vars

\* __init__ runs to its end: serial.Serial(...) returns or raises and
\* time.sleep(2) returns, so a pass of the loop that can be made is made.
FairSpec == Spec /\ WF_vars(ConnectSucceeds \/ ConnectFails)

----------------------------------------------------------------------------
(* calculate_flow_rate on its own: any pressure drop, any resistance *)

PressureInputs == {-1000, -1, 0, 1, 140, 500, 1600, 2000, 2500, 10000}
ResistanceInputs ==
    {None, Some(-668), Some(-628), Some(0), Some(628), Some(668), Some(910)}

InitConv ==
    /\ pc = "connecting"
    /\ attempts = 0
    /\ open_failed = FALSE
    /\ serial_connection = Absent
    /\ data = <<>>
    /\ first_measurement = None
    /\ inhaler_resistance = None
    /\ inhaler_var = "NEXThaler"
    /\ running = TRUE
    /\ times = <<>>
    /\ flow_rates = <<>>
    /\ rx = <<>>
    /\ lastTick = "none"
    /\ faulted = FALSE
    /\ conv \in [pa : PressureInputs, r : ResistanceInputs, result : {None}]
    /\ GuisOff

Convert ==
    /\ conv.result = None
    /\ conv' = [conv EXCEPT !.result = Some(calculate_flow_rate(conv.pa, conv.r))]
    /\ UNCHANGED <<pc, attempts, open_failed, serial_connection, data,
                   first_measurement, inhaler_resistance, inhaler_var, running,
                   times, flow_rates, rx, lastTick, faulted, guisVars>>

NextConv == Convert

SpecConv == InitConv /\ [][NextConv]_vars

----------------------------------------------------------------------------
(* Logic, logic.py 1-46 *)

MaxReadings == 3       \* readings that may reach logic.flow_rate_data

\* round(n / d) to the nearest integer, ties to the even one, for d > 0
RoundDiv(n, d) ==
    LET a == IF n < 0 THEN 0 - n ELSE n
        q == a \div d
        r == a % d
        k == IF 2 * r > d \/ (2 * r = d /\ q % 2 = 1) THEN q + 1 ELSE q
    IN  IF n < 0 THEN 0 - k ELSE k

\* round(x, 1) of a value in thousandths: tenths
round1(x) == RoundDiv(x, 100)

\* round(self.measurement_time, 2) of a time in ten-thousandths: hundredths
round2(t) == RoundDiv(t, 100)

\* round(1.0 / (self.measurement_time + 1) * 60, 2), logic.py 18: hundredths.
\* (Python's result is this one for the first 3000 steps of 0.14 at least,
\* the tie 46.875 at 0.28 included.)
simulated_flow_rate(t) == RoundDiv(60000000, t + 10000)

\* logic.py 43: self.measurement_time += 0.14
TimeStep == 1400

\* str.strip(';') on the tokens of the vocabulary
strip_semicolons(tok) ==
    IF tok = "45.0;" THEN "45.0"
    ELSE IF tok = "2;;" THEN "2"
    ELSE IF tok = ";" THEN ""
    ELSE tok

\* logic.py 12: if len(parts) != 2
NotAPair(parts) == Len(parts) # 2

\* Logic.parse_received_data, logic.py 9-40.  t: self.measurement_time.
parse_received_data(data_line, t, first) ==
    LET parts == Split(Strip(data_line))
    IN  IF NotAPair(parts) THEN ParseResult(None, first, "")
        ELSE
        LET temperature == float(parts[1])
            humidity == float(strip_semicolons(parts[2]))
        IN  IF ~temperature.ok \/ ~humidity.ok
            THEN ParseResult(None, first, "parse_error")
            ELSE
            LET parsed_data ==
                    [Year |-> 2024, Month |-> 12, Day |-> 2,
                     Hour |-> 14, Minute |-> 30, Second |-> 15,
                     Temperature |-> round1(temperature.val),
                     Humidity |-> round1(humidity.val),
                     AtmosphericPressure |-> round1(950000),
                     MeasurementTime |-> round2(t),
                     FlowRate |-> simulated_flow_rate(t)]
            IN  ParseResult(Some(parsed_data),
                            IF first = None THEN Some(parsed_data) ELSE first, "")

\* Logic.update_measurement_time, logic.py 42-43
update_measurement_time(t) == t + TimeStep

\* The lines the second device may send: two numbers, the second one
\* possibly followed by semicolons.
PairLines ==
    {<<"22.5", " ", "45.0;", "\n">>, <<" ", "3.5", " ", "2;;", "\n">>}

NotPairLines ==
    {<<"\n">>, <<"22.5", "\n">>, <<"22.5", " ", "45.0", " ", "2.0", "\n">>}

NonNumericPairLines ==
    {<<"abc", " ", "45.0", "\n">>, <<"22.5", " ", ";", "\n">>,
     <<"45.0;", " ", "22.5", "\n">>}

GuisLines == PairLines \cup NotPairLines \cup NonNumericPairLines

GuisWireItems == {Encoded(l) : l \in GuisLines} \cup {InvalidBytes}

----------------------------------------------------------------------------
(* Guis.start_gui, guis.py 74-102 *)

\* State when start_gui is entered: Logic.__init__ (logic.py 5-7) has run,
\* nothing is drawn, and main.py is not running.
MainOff ==
    /\ pc = "off"
    /\ attempts = 0
    /\ open_failed = FALSE
    /\ serial_connection = Absent
    /\ data = <<>>
    /\ first_measurement = None
    /\ inhaler_resistance = None
    /\ inhaler_var = "NEXThaler"
    /\ running = FALSE
    /\ times = <<>>
    /\ flow_rates = <<>>
    /\ rx = <<>>
    /\ lastTick = "none"
    /\ faulted = FALSE
    /\ conv = [pa |-> 0, r |-> None, result |-> None]

InitGuis ==
    /\ MainOff
    /\ gpc = "start"
    /\ ser = <<>>
    /\ flow_rate_data = <<>>
    /\ measurement_time = 0
    /\ logic_first = None
    /\ scheduled = 0
    /\ plotted = [times |-> <<>>, flow_rates |-> <<>>]
    /\ shown = None
    /\ lastUpdate = "none"

\* guis.py 78-83 and 101: the port opens and the first update is scheduled,
\* or start_gui returns
start_gui ==
    /\ gpc = "start"
    /\ \E connects \in BOOLEAN :
          IF connects
          THEN gpc' = "mainloop" /\ scheduled' = scheduled + 1
          ELSE gpc' = "returned" /\ scheduled' = scheduled
    /\ UNCHANGED <<mainVars, conv, ser, flow_rate_data, measurement_time,
                   logic_first, plotted, shown, lastUpdate>>

\* the device writes a line
ArriveGuis ==
    /\ gpc = "mainloop"
    /\ Len(ser) < MaxPending
    /\ \E item \in GuisWireItems : ser' = Append(ser, item)
    /\ UNCHANGED <<mainVars, conv, gpc, flow_rate_data, measurement_time,
                   logic_first, scheduled, plotted, shown, lastUpdate>>

\* Guis.update_plot, guis.py 60-72
draw(store) ==
    IF store # <<>>
    THEN [times      |-> [i \in 1..Len(store) |-> store[i].MeasurementTime],
          flow_rates |-> [i \in 1..Len(store) |-> store[i].FlowRate]]
    ELSE [times |-> <<>>, flow_rates |-> <<>>]

\* Guis.update_constants, guis.py 49-58, called at 95-96
update_constants(first, labels) == IF first # None THEN first ELSE labels

\* What lines 86-98 leave behind, with the path taken through them.
Updated(outcome, buf, store, t, first, drawn, labels) ==
    [outcome |-> outcome, ser |-> buf, flow_rate_data |-> store,
     measurement_time |-> t, logic_first |-> first, plotted |-> drawn,
     shown |-> labels]

\* nothing was appended: only the buffer and the first measurement can differ
NotAppended(outcome, buf, first) ==
    Updated(outcome, buf, flow_rate_data, measurement_time, first, plotted, shown)

\* a bug to catch: the clock is advanced for every line received
TimeAfterAnyLine(t, parsed) == update_measurement_time(t)

\* guis.py 91-93: update_measurement_time is called inside "if parsed_data"
TimeAfter(t, parsed) ==
    IF parsed # None THEN update_measurement_time(t) ELSE t

\* fault: readline raises SerialException
Poll(fault) ==
    IF fault THEN NotAppended("fault_readline", ser, logic_first)
    ELSE IF ser = <<>>                        \* timeout=1: readline returns b''
    THEN NotAppended("timeout", ser, logic_first)
    ELSE
    LET bytes == Head(ser)
        rest  == Tail(ser)
        line  == decode(bytes)
    IN  IF ~line.ok THEN NotAppended("decode_error", rest, logic_first)
        ELSE IF line.val = <<>> THEN NotAppended("timeout", rest, logic_first)
        ELSE
        LET parsed == parse_received_data(line.val, measurement_time, logic_first)
            t == TimeAfter(measurement_time, parsed.value)
        IN  IF parsed.value = None
            THEN [NotAppended(IF parsed.printed = "" THEN "invalid_format"
                                                     ELSE "parse_error",
                              rest, parsed.first_measurement)
                    EXCEPT !.measurement_time = t]
            ELSE
            LET store == Append(flow_rate_data, Value(parsed.value))
            IN  Updated("appended", rest, store, t, parsed.first_measurement,
                        draw(store),
                        update_constants(parsed.first_measurement, shown))

\* the exception that leaves the try body of lines 87-96 on each path
RaisedInUpdate(outcome) ==
    IF outcome = "fault_readline" THEN "SerialException"
    ELSE IF outcome = "decode_error" THEN "UnicodeDecodeError"
    ELSE "none"

\* guis.py 97: except Exception
CaughtInUpdate(exc) == exc \in Exceptions

\* a bug to catch: the next update is scheduled at the end of the try body
RescheduleInTry(pending, outcome) ==
    IF RaisedInUpdate(outcome) # "none" THEN pending ELSE pending + 1

\* guis.py 99: self.root.after(100, update), after the try statement
Reschedule(pending, outcome) == pending + 1

\* update, guis.py 85-99: one call made by the event loop
update ==
    /\ gpc = "mainloop"
    /\ scheduled > 0
    /\ \E fault \in BOOLEAN :
         LET e == Poll(fault)
             escapes == /\ RaisedInUpdate(e.outcome) # "none"
                        /\ ~CaughtInUpdate(RaisedInUpdate(e.outcome))
         IN  /\ Len(e.flow_rate_data) <= MaxReadings
             /\ ser' = e.ser
             /\ flow_rate_data' = e.flow_rate_data
             /\ measurement_time' = e.measurement_time
             /\ logic_first' = e.logic_first
             /\ plotted' = e.plotted
             /\ shown' = e.shown
             /\ lastUpdate' = e.outcome
             /\ gpc' = IF escapes THEN "crashed" ELSE gpc
             /\ scheduled' = IF escapes THEN scheduled - 1
                             ELSE Reschedule(scheduled - 1, e.outcome)
    /\ UNCHANGED <<mainVars, conv>>

NextGuis ==
    \/ start_gui
    \/ ArriveGuis
    \/ update

SpecGuis == InitGuis /\ [][NextGuis]_vars

\* Either program, run on its own: main.py, or Guis(Logic(...)).start_gui()
InitLoops == Init \/ InitGuis

NextLoops == Next \/ NextGuis

SpecLoops == InitLoops /\ [][NextLoops]_vars

----------------------------------------------------------------------------
(* Vocabulary of the properties *)

\* In an update_plot step: readline was called and returned what was buffered.
LineRead ==
    /\ running
    /\ serial_connection = "open"
    /\ rx # <<>>
    /\ rx' = Tail(rx)

\* ... and the bytes decoded to a text
TextRead == LineRead /\ Head(rx).utf8

\* ... and the combobox named a catalog entry, so that parse_data was called
LineParsed == TextRead /\ inhaler_var \in {"NEXThaler", "Turbuhaler"}

TokenCount(line) == Cardinality({i \in DOMAIN line : line[i] \notin {" ", "\n"}})

IntegerTokens == {"2024", "12", "02", "14", "30", "15", "2"}
NumberTokens ==
    IntegerTokens \cup
    {"22.5", "45.0", "1013.0", "3.5", "3.64", "2.0", "0.5", "0.0", "-1.0"}
NegativeTokens == {"-1.0"}

\* 11 tokens: 6 integers, then 5 numbers
WellFormed(line) ==
    /\ TokenCount(line) = 11
    /\ \A i \in 1..6 : Split(line)[i] \in IntegerTokens
    /\ \A i \in 7..11 : Split(line)[i] \in NumberTokens

NegativePressureDrop(line) == Split(line)[11] \in NegativeTokens

Last(seq) == seq[Len(seq)]

----------------------------------------------------------------------------
(* C1 *)

\* C1: a tick that reads a line whose token count is not 11 (the empty line
\* included) leaves logger.data and logger.first_measurement unchanged, and
\* parse_data returns None for that line whatever the resistance.
C1_WrongTokenCountRejected ==
    [][(TextRead /\ TokenCount(Head(rx).text) # 11 /\ update_plot) =>
          /\ data' = data
          /\ first_measurement' = first_measurement
          /\ lastTick' \in {"invalid_format", "no_selection"}
          /\ \A r \in {668, 628} :
                parse_data(Strip(Head(rx).text), Some(r), first_measurement).value = None
      ]_vars

\* a tick has just rejected a line for its token count, with a reading stored
C1_Witness ==
    /\ lastTick = "invalid_format"
    /\ Len(data) = 1
    /\ first_measurement = Some(data[1])

----------------------------------------------------------------------------
(* C2 *)

FirstIsHeadOfStore ==
    first_measurement = IF data = <<>> THEN None ELSE Some(data[1])

\* C2: first_measurement is None exactly when the store is empty, otherwise
\* it is data[0], the first reading ever appended; once set, no step changes it.
C2_FirstMeasurementSticky ==
    /\ FirstIsHeadOfStore
    /\ [][/\ FirstIsHeadOfStore'
          /\ first_measurement # None => first_measurement' = first_measurement
          /\ data # <<>> => (data' # <<>> /\ data'[1] = data[1])
         ]_vars

\* two different readings are stored and the first one is the first measurement
C2_Witness ==
    /\ Len(data) = 2
    /\ data[1] # data[2]
    /\ first_measurement = Some(data[1])
    /\ lastTick = "appended"

----------------------------------------------------------------------------
(* C3 *)

\* C3: once update_plot has caught a SerialException the connection is None
\* and stays None; every later tick takes the idle path (no readiness check,
\* no readline) and the store never changes again.
C3_FaultedIsTerminal ==
    [][/\ faulted' => serial_connection' = Absent
       /\ faulted =>
            /\ faulted'
            /\ data' = data
            /\ first_measurement' = first_measurement
            /\ update_plot => (rx' = rx /\ lastTick' = "idle")
      ]_vars

\* after a fault a tick has run with a line waiting in the buffer, and left it
C3_Witness ==
    /\ faulted
    /\ running
    /\ lastTick = "idle"
    /\ rx # <<>>
    /\ data # <<>>

----------------------------------------------------------------------------
(* C4 *)

\* C4: a tick with no handle, or with a combobox text that is no catalog
\* entry, is a no-op: no line is consumed, parse_data is not called, the
\* store and the first measurement are unchanged.
C4_NoSelectionIsNoOp ==
    [][((serial_connection = Absent \/ inhaler_var \notin {"NEXThaler", "Turbuhaler"})
        /\ update_plot)
       => /\ rx' = rx
          /\ data' = data
          /\ first_measurement' = first_measurement
          /\ lastTick' \notin {"invalid_format", "parse_error", "appended"}
      ]_vars

----------------------------------------------------------------------------
(* C5 *)

FailsToParse(line) ==
    \/ TokenCount(line) # 11
    \/ \E i \in 1..6 : Split(line)[i] \notin IntegerTokens
    \/ \E i \in 7..11 : Split(line)[i] \notin NumberTokens
    \/ NegativePressureDrop(line)

\* C5: a tick whose line fails to parse (token count, non-numeric field,
\* negative pressure drop) changes neither store, first measurement nor
\* connection, which stays open; and whatever came before, a tick that reads
\* a well-formed line with a non-negative pressure drop appends one reading.
C5_BadLineDoesNotAbort ==
    [][/\ (LineParsed /\ FailsToParse(Head(rx).text) /\ update_plot) =>
            /\ data' = data
            /\ first_measurement' = first_measurement
            /\ serial_connection' = "open"
            /\ lastTick' \in {"invalid_format", "parse_error"}
       /\ (LineParsed /\ ~FailsToParse(Head(rx).text) /\ update_plot) =>
            /\ Len(data') = Len(data) + 1
            /\ SubSeq(data', 1, Len(data)) = data
            /\ lastTick' = "appended"
      ]_vars

\* a line was just discarded by the except clause of parse_data, the session
\* is still polling, and a good line is waiting for the next tick
C5_Witness ==
    /\ lastTick = "parse_error"
    /\ serial_connection = "open"
    /\ running
    /\ Len(data) = 1
    /\ rx # <<>>
    /\ Head(rx).utf8
    /\ WellFormed(Head(rx).text)
    /\ ~NegativePressureDrop(Head(rx).text)

----------------------------------------------------------------------------
(* C6 *)

\* C6: __init__ makes at most 5 passes of the retry loop and leaves it at the
\* first pass that connects: while the loop runs, fewer than 5 passes have
\* been made and none has connected; every pass either is counted and fails,
\* or ends the loop, connected, or unconnected after the fifth pass.  When
\* all 5 fail the connection is None, and from then on every tick takes the
\* idle path and the store stays empty.  The loop always ends.
C6_BoundedRetry ==
    /\ <>(pc = "mainloop")
    /\ [](pc = "connecting" =>
            attempts \in 0..4 /\ serial_connection = Absent /\ ~open_failed)
    /\ [](open_failed =>
            /\ pc = "mainloop"
            /\ serial_connection = Absent
            /\ data = <<>>
            /\ first_measurement = None
            /\ lastTick \in {"none", "idle"})
    /\ [][pc = "connecting" =>
            \/ /\ pc' = "connecting"
               /\ attempts' = attempts + 1
               /\ serial_connection' = Absent
            \/ /\ pc' = "mainloop"
               /\ serial_connection' = "open"
               /\ ~open_failed'
            \/ /\ pc' = "mainloop"
               /\ attempts = 4
               /\ serial_connection' = Absent
               /\ open_failed'
         ]_vars

\* all 5 passes failed, and a tick has run while the device was sending
C6_Witness ==
    /\ open_failed
    /\ lastTick = "idle"
    /\ rx # <<>>
    /\ data = <<>>

----------------------------------------------------------------------------
(* C7 *)

\* f hundredths is round(sqrt(pa) / (r10/10) * 60, 2):
\* |f - 6000 * sqrt(pa) / (r10/10)| < 1/2 (no tie arises: see AtLeastHalfBelow)
IsRoundedFlow(f, pa, r10) ==
    /\ f >= 0
    /\ f = 0 \/ SqLeqMillion((2 * f - 1) * r10, 14400 * pa)
    /\ ~SqLeqMillion((2 * f + 1) * r10, 14400 * pa)

ParsedWithFormula ==
    /\ lastTick' = "appended"
    /\ data' = Append(data, Last(data'))
    /\ IsRoundedFlow(Last(data').FlowRate, Last(data').PressureDrop,
                     IF inhaler_var = "NEXThaler" THEN 668 ELSE 628)

\* C7 as stated: every well-formed line (11 tokens, 6 integers then 5
\* numbers) is parsed into a reading whose FlowRate is
\* round(sqrt(pressureDrop*1000)/resistance*60, 2) for the resistance
\* selected at that tick.
C7_WellFormedAlwaysParses ==
    [][(LineParsed /\ WellFormed(Head(rx).text) /\ update_plot)
       => ParsedWithFormula]_vars

\* C7 amended: the same, for the well-formed lines whose pressure drop is
\* not negative.
C7_NonNegativeWellFormedParses ==
    [][(LineParsed /\ WellFormed(Head(rx).text)
        /\ ~NegativePressureDrop(Head(rx).text) /\ update_plot)
       => ParsedWithFormula]_vars

\* 2.0 kPa with the NEXThaler (66.8) was just stored as 40.17 L/min
C7_Witness ==
    /\ lastTick = "appended"
    /\ inhaler_resistance = Some(668)
    /\ Last(data).PressureDrop = 2000
    /\ Last(data).FlowRate = 4017

----------------------------------------------------------------------------
(* C8 *)

\* C8: calculate_flow_rate raises whenever the resistance is zero or
\* negative, for every pressure drop.
C8_NonPositiveResistanceFails ==
    (conv.result # None /\ conv.r # None /\ Value(conv.r) <= 0)
        => ~Value(conv.result).ok

----------------------------------------------------------------------------
(* C9 *)

\* C9: a tick that finds the connection open and in_waiting = 0 (the
\* readiness check itself not raising) reads and parses nothing, raises
\* nothing, and leaves store, first measurement, connection and buffer as
\* they were; so the store is still empty and the connection still open
\* after any run of such ticks from the start.
C9_UnreadableTickIsNoOp ==
    [][(running /\ serial_connection = "open" /\ rx = <<>>
        /\ lastTick' \notin {"fault_in_waiting", "fault_readline"} /\ update_plot)
       => /\ lastTick' = "unreadable"
          /\ UNCHANGED <<data, first_measurement, serial_connection, rx,
                         inhaler_resistance, faulted>>
      ]_vars

\* the only ticks so far found nothing to read
C9_Witness ==
    /\ lastTick = "unreadable"
    /\ data = <<>>
    /\ serial_connection = "open"
    /\ inhaler_resistance = None
    /\ ~faulted

----------------------------------------------------------------------------
(* C10 *)

ProjectionMatchesStore ==
    /\ Len(times) = Len(data)
    /\ Len(flow_rates) = Len(data)
    /\ \A i \in 1..Len(data) :
          /\ times[i] = data[i].MeasurementTime
          /\ flow_rates[i] = data[i].FlowRate

\* C10: times and flow_rates have the length of the store and hold, index by
\* index, the Measurement Time and Flow Rate of the stored readings in
\* insertion order; no step (a refresh included) moves or drops a stored
\* reading, and while nothing is appended the two sequences stay the same.
C10_ProjectionAligned ==
    /\ []ProjectionMatchesStore
    /\ [][/\ SubSeq(data', 1, Len(data)) = data
          /\ data' = data => (times' = times /\ flow_rates' = flow_rates)
         ]_vars

\* two readings that differ in time and in flow rate are plotted in order
C10_Witness ==
    /\ Len(data) = 2
    /\ times = <<3500, 3640>>
    /\ flow_rates[1] # flow_rates[2]
    /\ flow_rates[2] # data[2].PressureDrop

----------------------------------------------------------------------------
(* C11 *)

\* C11: the store is append-only and stored readings are frozen.  Every step
\* leaves logger.data unchanged or extends it by exactly one reading at the
\* end; the reading appended carries the flow rate of its own pressure drop
\* under the resistance selected at that tick; a change of the selection
\* leaves the store as it was, so every stored reading keeps its FlowRate
\* through later selections and later ticks.
C11_AppendOnlyFrozen ==
    [][/\ \/ data' = data
          \/ /\ Len(data') = Len(data) + 1
             /\ SubSeq(data', 1, Len(data)) = data
             /\ inhaler_var \in DOMAIN INHALER_RESISTANCES
             /\ inhaler_resistance' = Some(INHALER_RESISTANCES[inhaler_var])
             /\ IsRoundedFlow(Last(data').FlowRate, Last(data').PressureDrop,
                              INHALER_RESISTANCES[inhaler_var])
       /\ \A i \in 1..Len(data) : data'[i].FlowRate = data[i].FlowRate
       /\ inhaler_var' # inhaler_var => data' = data
      ]_vars

\* a reading stored under the NEXThaler (40.17) is still 40.17 after the
\* selection changed to the Turbuhaler and a second reading (42.73) was
\* appended under it
C11_Witness ==
    /\ Len(data) = 2
    /\ data[1].PressureDrop = 2000
    /\ data[1].FlowRate = 4017
    /\ data[2].PressureDrop = 2000
    /\ data[2].FlowRate = 4273
    /\ inhaler_resistance = Some(628)
    /\ lastTick = "appended"

----------------------------------------------------------------------------
(* C12 *)

\* C12: no error condition crashes either acquisition loop.  In main.py no
\* exception ever leaves update_plot: after a tick that met a transport
\* fault, a decode error, a missing catalog entry or a parse failure the
\* program is still in its main loop, where the next tick runs.  In
\* Guis.start_gui no exception leaves update, and every call of update,
\* whatever path it took, consumes the pending call and schedules exactly
\* one: while the loop runs exactly one call is pending.
C12_NoTickCrashes ==
    /\ [](pc # "crashed" /\ gpc # "crashed")
    /\ [](gpc = "mainloop" => scheduled = 1)
    /\ [][(gpc = "mainloop" /\ update) =>
             /\ gpc' = "mainloop"
             /\ scheduled' = (scheduled - 1) + 1
         ]_vars
    /\ [][(pc = "mainloop" /\ lastTick' # lastTick) => pc' = "mainloop"]_vars

\* update has just caught the SerialException of readline with a reading
\* stored and a line waiting, and the next call is scheduled
C12_Witness ==
    /\ gpc = "mainloop"
    /\ lastUpdate = "fault_readline"
    /\ Len(flow_rate_data) = 1
    /\ ser # <<>>
    /\ scheduled = 1

----------------------------------------------------------------------------
(* C13 *)

\* C13: once quit_program has run (running is False), it stays so, and an
\* update_plot tick takes the idle path: it does not check readiness, reads
\* nothing from the buffer and appends nothing; the store, the first
\* measurement and the connection never change again.  quit_program itself
\* closes the connection when there is one and leaves an absent one absent,
\* and changes nothing else but running.
C13_QuitIsFinal ==
    [][/\ ~running =>
            /\ ~running'
            /\ data' = data
            /\ first_measurement' = first_measurement
            /\ serial_connection' = serial_connection
            /\ Len(rx') >= Len(rx)
       /\ (~running /\ update_plot) =>
            /\ lastTick' = "idle"
            /\ rx' = rx
       /\ (running /\ ~running') =>
            /\ serial_connection' =
                  IF serial_connection = Absent THEN Absent ELSE "closed"
            /\ UNCHANGED <<data, first_measurement, rx, times, flow_rates,
                           lastTick, inhaler_resistance>>
      ]_vars

\* quit_program closed the connection with a reading stored; a tick has run
\* since and left the waiting line in the buffer
C13_Witness ==
    /\ ~running
    /\ serial_connection = "closed"
    /\ lastTick = "idle"
    /\ rx # <<>>
    /\ Len(data) = 1

\* quit_program has run without a connection: there is still none
C13_WitnessAbsent ==
    /\ ~running
    /\ open_failed
    /\ serial_connection = Absent

----------------------------------------------------------------------------
(* C14 *)

\* In a call of update: readline returned the line at the head of the buffer
\* and it decoded to a text, so that parse_received_data was called.
PairLineParsed ==
    /\ gpc = "mainloop"
    /\ ser # <<>>
    /\ ser' = Tail(ser)
    /\ Head(ser).utf8

\* the line is not two tokens, or one of the two is not a number (the second
\* one with its trailing semicolons taken off)
PairFails(line) ==
    \/ TokenCount(line) # 2
    \/ Split(line)[1] \notin NumberTokens
    \/ Split(line)[2] \notin NumberTokens \cup {"45.0;", "2;;"}

\* the time of i steps of 0.14 s, in hundredths
TimeOfSteps(i) == 14 * i

StoredTimesCountSteps ==
    /\ measurement_time = Len(flow_rate_data) * 1400
    /\ \A i \in 1..Len(flow_rate_data) :
          flow_rate_data[i].MeasurementTime = TimeOfSteps(i - 1)
    /\ \A i, j \in 1..Len(flow_rate_data) :
          i < j => flow_rate_data[i].MeasurementTime < flow_rate_data[j].MeasurementTime
    /\ logic_first = IF flow_rate_data = <<>> THEN None ELSE Some(flow_rate_data[1])

\* C14: in the Logic/Guis pipeline the measurement time is one step of 0.14 s
\* per stored reading: the i-th reading appended (from 0) carries the time of
\* i steps, so the stored times increase strictly; the time moves only in a
\* step that appends one reading, and every append moves it by one step; a
\* call of update whose line fails to parse (token count not 2, or a
\* non-numeric token) appends nothing, leaves the time where it was and does
\* not set the first measurement.
C14_TimeStepsWithAppends ==
    /\ []StoredTimesCountSteps
    /\ [][/\ measurement_time' # measurement_time =>
               /\ measurement_time' = measurement_time + 1400
               /\ flow_rate_data' = Append(flow_rate_data, Last(flow_rate_data'))
          /\ flow_rate_data' # flow_rate_data =>
               /\ measurement_time' = measurement_time + 1400
               /\ flow_rate_data' = Append(flow_rate_data, Last(flow_rate_data'))
          /\ (PairLineParsed /\ PairFails(Head(ser).text) /\ update) =>
               /\ flow_rate_data' = flow_rate_data
               /\ measurement_time' = measurement_time
               /\ logic_first' = logic_first
               /\ lastUpdate' \in {"invalid_format", "parse_error"}
          /\ (PairLineParsed /\ ~PairFails(Head(ser).text) /\ update) =>
               lastUpdate' = "appended"
         ]_vars

\* three readings are stored at 0.00, 0.14 and 0.28 s, and the last call of
\* update discarded a line with a non-numeric token
C14_Witness ==
    /\ Len(flow_rate_data) = 3
    /\ plotted.times = <<0, 14, 28>>
    /\ measurement_time = 4200
    /\ lastUpdate = "parse_error"

\* the first line received failed to parse: nothing is stored, the time is
\* 0 and no first measurement is set
C14_WitnessFirstLineFails ==
    /\ lastUpdate \in {"invalid_format", "parse_error"}
    /\ flow_rate_data = <<>>
    /\ measurement_time = 0
    /\ logic_first = None

============================================================================
